---- MODULE Spec2Model ----
(***************************************************************************)
(* Model of the PDF translation pipeline of translate.py: split_pdf,       *)
(* run_pdfmathtranslate, custom_translate, merge_pdfs, process_large_pdf   *)
(* and main.  The file system is a function from paths to files; a path is *)
(* a sequence of components whose last component is the file stem (every   *)
(* file is a .pdf, so os.path.splitext(os.path.basename(p))[0] is the last *)
(* component).                                                             *)
(***************************************************************************)
EXTENDS Integers, Sequences, FiniteSets, TLC

(***************************************************************************)
(* Bounds of the model.                                                    *)
(***************************************************************************)
MaxPages == 3
MaxChunkSize == 2
MaxChunks == 2
MaxSplitPages == 9
MaxSplitChunkSize == 5
MaxMergeLen == 3

(***************************************************************************)
(* Program constants.                                                      *)
(***************************************************************************)
LargePageThreshold == 30
LargeSizeThresholdMB == 10
DefaultPagesPerChunk == 20

(***************************************************************************)
(* Paths and names.                                                        *)
(***************************************************************************)
NoPath == <<>>

OUTPUT_ROOT == "/app/data/output/translations"

target_lang_code == "ja"

\* LANGUAGE_CODES reverse lookup of the target language code
target_lang_name == "japanese"

InputFile == <<"/data", "doc">>

TempDir == <<"/tmp", "pdf_translate_0">>

Basename(p) == p[Len(p)]

Dirname(p) == SubSeq(p, 1, Len(p) - 1)

Pad3(n) == IF n < 10 THEN "00" \o ToString(n)
           ELSE IF n < 100 THEN "0" \o ToString(n) ELSE ToString(n)

\* f"chunk_{i+1:03d}.pdf" inside temp_dir, for the 0-based loop index i
ChunkFileName(i) == TempDir \o <<"chunk_" \o Pad3(i + 1)>>

structured_output_dir(basename) == <<OUTPUT_ROOT, target_lang_name, basename>>

\* names under which the backend leaves its output (pdf2zh -o output_dir)
BackendMonoOutput(input_file) ==
    structured_output_dir(Basename(input_file)) \o <<Basename(input_file) \o "-mono">>

BackendDualOutput(input_file) ==
    structured_output_dir(Basename(input_file)) \o <<Basename(input_file) \o "-dual">>

\* names under which run_pdfmathtranslate leaves the artifacts
AdapterMonoOutput(input_file) ==
    structured_output_dir(Basename(input_file))
        \o <<Basename(input_file) \o "_" \o target_lang_name \o "_translated">>

AdapterDualOutput(input_file) ==
    structured_output_dir(Basename(input_file))
        \o <<Basename(input_file) \o "_" \o target_lang_name \o "_bilingual">>

\* canonical final locations of process_large_pdf
final_mono_output ==
    structured_output_dir(Basename(InputFile))
        \o <<Basename(InputFile) \o "_" \o target_lang_name \o "_translated">>

final_dual_output ==
    structured_output_dir(Basename(InputFile))
        \o <<Basename(InputFile) \o "_" \o target_lang_name \o "_bilingual">>

chunk_output_dir(chunk_file) ==
    structured_output_dir(Basename(InputFile)) \o <<Basename(chunk_file)>>

\* paths the collection step of process_large_pdf checks for a chunk
expected_mono_output(chunk_file) ==
    chunk_output_dir(chunk_file)
        \o <<Basename(chunk_file) \o "_" \o target_lang_name \o "_translated">>

expected_dual_output(chunk_file) ==
    chunk_output_dir(chunk_file)
        \o <<Basename(chunk_file) \o "_" \o target_lang_name \o "_bilingual">>

\* args.output when --output is absent: f"{base_name}_{args.target_lang}.pdf"
DefaultOutput == <<Basename(InputFile) \o "_" \o target_lang_name>>

\* output_file custom_translate makes up when none is given
CustomDefaultOutput(input_file) == <<Basename(input_file) \o "_" \o target_lang_code>>

(***************************************************************************)
(* Files.  A file is a sequence of page blocks and a flag telling whether  *)
(* it was written completely.                                              *)
(***************************************************************************)
Block(src, kind, n) == [src |-> src, kind |-> kind, n |-> n]

File(blocks) == [blocks |-> blocks, complete |-> TRUE]

PartialFile == [blocks |-> <<>>, complete |-> FALSE]

Exists(f, p) == p \in DOMAIN f

WriteFile(f, p, file) == [q \in (DOMAIN f) \cup {p} |-> IF q = p THEN file ELSE f[q]]

RemoveFile(f, p) == [q \in (DOMAIN f) \ {p} |-> f[q]]

\* shutil.move(src, dst)
MoveFile(f, src, dst) == RemoveFile(WriteFile(f, dst, f[src]), src)

\* shutil.copy(src, dst)
CopyFile(f, src, dst) == WriteFile(f, dst, f[src])

RECURSIVE Concat(_, _)
Concat(f, paths) ==
    IF paths = <<>> THEN <<>>
    ELSE f[Head(paths)].blocks \o Concat(f, Tail(paths))

Min(a, b) == IF a < b THEN a ELSE b

(***************************************************************************)
(* split_pdf                                                               *)
(***************************************************************************)
num_chunks(total_pages, pages_per_chunk) ==
    (total_pages + pages_per_chunk - 1) \div pages_per_chunk

start_page(i, pages_per_chunk) == i * pages_per_chunk

\* end of a chunk computed without the clamp to the last page
end_page_unclamped(i, total_pages, pages_per_chunk) ==
    (i + 1) * pages_per_chunk - 1

end_page(i, total_pages, pages_per_chunk) ==
    Min((i + 1) * pages_per_chunk - 1, total_pages - 1)

\* pages range(start_page, end_page + 1) of the input document
ChunkPages(s, e) ==
    IF e < s THEN <<>> ELSE [k \in 1..(e - s + 1) |-> Block("input", "page", s + k - 1)]

\* the for loop of split_pdf from index i on; new_doc.save refuses a
\* document without pages
RECURSIVE SplitLoop(_, _, _, _, _)
SplitLoop(f, files, i, total_pages, pages_per_chunk) ==
    IF i >= num_chunks(total_pages, pages_per_chunk)
    THEN [fs |-> f, chunk_files |-> files, raised |-> FALSE]
    ELSE LET s == start_page(i, pages_per_chunk)
             e == end_page(i, total_pages, pages_per_chunk)
         IN  IF ChunkPages(s, e) = <<>>
             THEN [fs |-> f, chunk_files |-> files, raised |-> TRUE]
             ELSE SplitLoop(WriteFile(f, ChunkFileName(i), File(ChunkPages(s, e))),
                            Append(files, ChunkFileName(i)),
                            i + 1, total_pages, pages_per_chunk)

\* split_pdf: the temporary directory is created first, then the input is
\* opened, then the chunks are written
split_pdf(f, d, input_state, total_pages, pages_per_chunk) ==
    IF input_state # "ok" \/ pages_per_chunk = 0
    THEN [fs |-> f, dirs |-> d \cup {TempDir}, chunk_files |-> <<>>, raised |-> TRUE]
    ELSE LET r == SplitLoop(f, <<>>, 0, total_pages, pages_per_chunk)
         IN  [fs |-> r.fs, dirs |-> d \cup {TempDir},
              chunk_files |-> r.chunk_files, raised |-> r.raised]

(***************************************************************************)
(* run_pdfmathtranslate and custom_translate.  outcome is what the backend *)
(* (pdf2zh) does: "error" is a non-zero exit, otherwise the kinds it       *)
(* writes into output_dir.  copy_ok tells whether shutil.copy can write    *)
(* the requested output_file.                                              *)
(***************************************************************************)
BackendOutcomes == {"error", "none", "mono", "dual", "both"}

BackendWrites(f, input_file, outcome) ==
    LET f1 == IF outcome \in {"mono", "both"}
              THEN WriteFile(f, BackendMonoOutput(input_file),
                             File(<<Block(Basename(input_file), "mono", 0)>>))
              ELSE f
    IN  IF outcome \in {"dual", "both"}
        THEN WriteFile(f1, BackendDualOutput(input_file),
                       File(<<Block(Basename(input_file), "dual", 0)>>))
        ELSE f1

run_pdfmathtranslate(f, input_file, output_file, outcome, copy_ok) ==
    IF outcome = "error"
    THEN [fs |-> f, ret |-> FALSE]
    ELSE LET f1 == BackendWrites(f, input_file, outcome)
             has_mono == Exists(f1, BackendMonoOutput(input_file))
             f2 == IF has_mono
                   THEN MoveFile(f1, BackendMonoOutput(input_file),
                                 AdapterMonoOutput(input_file))
                   ELSE f1
             has_dual == Exists(f2, BackendDualOutput(input_file))
             f3 == IF has_dual
                   THEN MoveFile(f2, BackendDualOutput(input_file),
                                 AdapterDualOutput(input_file))
                   ELSE f2
             success == has_mono \/ has_dual
         IN  IF success /\ output_file # NoPath
                /\ output_file # AdapterMonoOutput(input_file)
             THEN IF Exists(f3, AdapterMonoOutput(input_file)) /\ copy_ok
                  THEN [fs |-> CopyFile(f3, AdapterMonoOutput(input_file), output_file),
                        ret |-> TRUE]
                  ELSE [fs |-> f3, ret |-> FALSE]
             ELSE [fs |-> f3, ret |-> success]

\* api_ok: text extraction and every segment translation went through
custom_translate(f, input_file, output_file, api_ok, outcome, copy_ok) ==
    IF ~api_ok
    THEN [fs |-> f, ret |-> FALSE]
    ELSE run_pdfmathtranslate(f, input_file,
                              IF output_file = NoPath
                              THEN CustomDefaultOutput(input_file)
                              ELSE output_file,
                              outcome, copy_ok)

(***************************************************************************)
(* merge_pdfs.  write_outcome is what merger.write does: "ok", "fail"      *)
(* (the output cannot be created) or "partial" (the write fails after the  *)
(* output was opened).                                                     *)
(***************************************************************************)
WriteOutcomes == {"ok", "fail", "partial"}

ExistingFiles(f, pdf_files) == SelectSeq(pdf_files, LAMBDA p : Exists(f, p))

\* a merge that gives up when an input is missing
merge_pdfs_FailOnMissing(f, pdf_files, output_file, available, write_outcome) ==
    IF ~available THEN [fs |-> f, ret |-> FALSE]
    ELSE IF pdf_files = <<>> THEN [fs |-> f, ret |-> FALSE]
    ELSE IF \E k \in 1..Len(pdf_files) : ~Exists(f, pdf_files[k])
         THEN [fs |-> f, ret |-> FALSE]
    ELSE IF write_outcome = "ok"
         THEN [fs |-> WriteFile(f, output_file, File(Concat(f, pdf_files))),
               ret |-> TRUE]
    ELSE IF write_outcome = "partial"
         THEN [fs |-> WriteFile(f, output_file, PartialFile), ret |-> FALSE]
    ELSE [fs |-> f, ret |-> FALSE]

merge_pdfs(f, pdf_files, output_file, available, write_outcome) ==
    IF ~available THEN [fs |-> f, ret |-> FALSE]
    ELSE IF pdf_files = <<>> THEN [fs |-> f, ret |-> FALSE]
    ELSE IF write_outcome = "ok"
         THEN [fs |-> WriteFile(f, output_file,
                                File(Concat(f, ExistingFiles(f, pdf_files)))),
               ret |-> TRUE]
    ELSE IF write_outcome = "partial"
         THEN [fs |-> WriteFile(f, output_file, PartialFile), ret |-> FALSE]
    ELSE [fs |-> f, ret |-> FALSE]

(***************************************************************************)
(* State.                                                                  *)
(***************************************************************************)
VARIABLES
    args,                   \* arguments and environment of the run
    pc,                     \* position of the run
    fs,                     \* file system: path -> file
    dirs,                   \* directories created by the run
    chunk_files,            \* chunk_files of process_large_pdf
    i,                      \* number of chunks the loop has processed
    translated_mono_files,
    translated_dual_files,
    translation_success,
    result,                 \* what the translation call returned
    calls,                  \* chunk numbers the translator was invoked on
    failed,                 \* chunk numbers whose translation returned False
    merge_log,              \* what each merge did
    raised,                 \* where an exception was caught
    route,                  \* path chosen by main
    main_ret,               \* value returned by main
    exit_status             \* exit status of the process

vars == <<args, pc, fs, dirs, chunk_files, i, translated_mono_files,
          translated_dual_files, translation_success, result, calls, failed,
          merge_log, raised, route, main_ret, exit_status>>

mainVars == <<route, main_ret, exit_status>>

loopVars == <<chunk_files, i, translated_mono_files, translated_dual_files,
              calls, failed>>

(***************************************************************************)
(* Files left by earlier runs or placed by the user.                       *)
(***************************************************************************)
StaleChunkArtifacts(kinds) ==
    UNION {(IF "mono" \in kinds THEN {expected_mono_output(ChunkFileName(k))} ELSE {})
           \cup (IF "dual" \in kinds THEN {expected_dual_output(ChunkFileName(k))} ELSE {})
           : k \in 0..(MaxChunks - 1)}

\* chunk artifacts of some kinds in the chunk output directories, with or
\* without a final mono artifact of an earlier run
StaleSets ==
    {StaleChunkArtifacts(kinds) \cup finals :
        kinds \in SUBSET {"mono", "dual"}, finals \in {{}, {final_mono_output}}}

StaleFile(p) == File(<<Block(Basename(p), "stale", 0)>>)

\* the file system a run starts in
InitialFs(S, input_state) ==
    [p \in S \cup (IF input_state = "missing" THEN {} ELSE {InputFile})
        |-> IF p = InputFile THEN File(<<Block("input", "document", 0)>>) ELSE StaleFile(p)]

RequestedOutput == <<"/out", "result">>

(***************************************************************************)
(* Initial states.                                                         *)
(***************************************************************************)
Engines == {"default", "openai"}

Args(caller, input_state, total_pages, pages_per_chunk, engine, output_file, large, file_size, merger_available, stale) ==
    [caller |-> caller, input_state |-> input_state, total_pages |-> total_pages,
     pages_per_chunk |-> pages_per_chunk, engine |-> engine,
     output_file |-> output_file, large |-> large, file_size |-> file_size,
     merger_available |-> merger_available, stale |-> stale]

\* the inputs whose split stays within MaxChunks chunks
WithinChunks(total_pages, pages_per_chunk) ==
    IF pages_per_chunk = 0 THEN TRUE
    ELSE num_chunks(total_pages, pages_per_chunk) <= MaxChunks

InitState(a, start) ==
    /\ args = a
    /\ pc = start
    /\ fs = InitialFs(a.stale, a.input_state)
    /\ dirs = {}
    /\ chunk_files = <<>>
    /\ i = 0
    /\ translated_mono_files = <<>>
    /\ translated_dual_files = <<>>
    /\ translation_success = FALSE
    /\ result = "pending"
    /\ calls = <<>>
    /\ failed = {}
    /\ merge_log = [mono |-> "none", dual |-> "none"]
    /\ raised = "none"
    /\ route = "none"
    /\ main_ret = -1
    /\ exit_status = -1

\* process_large_pdf called with its arguments
Init ==
    \E input_state \in {"ok", "missing"},
       total_pages \in 0..MaxPages,
       pages_per_chunk \in (-1)..MaxChunkSize,
       engine \in Engines,
       output_file \in {NoPath, final_mono_output, RequestedOutput},
       merger_available \in BOOLEAN,
       stale \in StaleSets :
        /\ WithinChunks(total_pages, pages_per_chunk)
        /\ input_state = "missing" => total_pages = 0
        /\ InitState(Args("direct", input_state, total_pages, pages_per_chunk, engine,
                          output_file, FALSE, 1, merger_available, stale),
                     "Initialized")

(***************************************************************************)
(* process_large_pdf                                                       *)
(***************************************************************************)
\* lines 356-376: the output directory, split_pdf, the empty accumulators;
\* an exception of split_pdf is caught by the except clause, which returns False
Split ==
    /\ pc = "Initialized"
    /\ LET r == split_pdf(fs, dirs \cup {structured_output_dir(Basename(InputFile))},
                          args.input_state, args.total_pages, args.pages_per_chunk)
       IN  /\ fs' = r.fs
           /\ dirs' = r.dirs
           /\ chunk_files' = r.chunk_files
           /\ IF r.raised
              THEN /\ pc' = "Done"
                   /\ result' = "False"
                   /\ raised' = "split"
              ELSE /\ pc' = IF r.chunk_files = <<>> THEN "MergingMono"
                            ELSE "TranslatingChunks"
                   /\ UNCHANGED <<result, raised>>
    /\ UNCHANGED <<args, i, translated_mono_files, translated_dual_files,
                   translation_success, calls, failed, merge_log, mainVars>>

\* the translator call of one loop iteration
TranslatorCall(f, chunk_file, engine, api_ok, outcome, copy_ok) ==
    IF engine = "default"
    THEN run_pdfmathtranslate(f, chunk_file, NoPath, outcome, copy_ok)
    ELSE custom_translate(f, chunk_file, NoPath, api_ok, outcome, copy_ok)

\* a collection step that puts the artifact in front
CollectMono_Prepend(f, chunk_file, files) ==
    IF Exists(f, expected_mono_output(chunk_file))
    THEN <<expected_mono_output(chunk_file)>> \o files
    ELSE files

\* the collection step: an artifact found at the expected path is appended
CollectMono(f, chunk_file, files) ==
    IF Exists(f, expected_mono_output(chunk_file))
    THEN Append(files, expected_mono_output(chunk_file))
    ELSE files

CollectDual(f, chunk_file, files) ==
    IF Exists(f, expected_dual_output(chunk_file))
    THEN Append(files, expected_dual_output(chunk_file))
    ELSE files

\* a loop that stops at the first chunk whose translation fails
NextLoopPc_StopOnFailure(done, total, success) ==
    IF done = total \/ ~success THEN "MergingMono" ELSE "TranslatingChunks"

\* the for loop goes on to the next chunk whatever the translation returned
NextLoopPc(done, total, success) ==
    IF done = total THEN "MergingMono" ELSE "TranslatingChunks"

\* one iteration of the chunk loop, lines 379-408
TranslateChunk ==
    /\ pc = "TranslatingChunks"
    /\ i < Len(chunk_files)
    /\ \E outcome \in BackendOutcomes, api_ok \in BOOLEAN, copy_ok \in BOOLEAN :
        /\ args.engine = "default" => api_ok /\ copy_ok
        /\ ~api_ok => outcome = "none" /\ copy_ok
        /\ LET chunk_file == chunk_files[i + 1]
               r == TranslatorCall(fs, chunk_file, args.engine, api_ok, outcome, copy_ok)
           IN  /\ fs' = r.fs
               /\ dirs' = dirs \cup {chunk_output_dir(chunk_file)}
               /\ translated_mono_files' =
                    IF r.ret THEN CollectMono(r.fs, chunk_file, translated_mono_files)
                    ELSE translated_mono_files
               /\ translated_dual_files' =
                    IF r.ret THEN CollectDual(r.fs, chunk_file, translated_dual_files)
                    ELSE translated_dual_files
               /\ calls' = Append(calls, i + 1)
               /\ failed' = IF r.ret THEN failed ELSE failed \cup {i + 1}
               /\ pc' = NextLoopPc(i + 1, Len(chunk_files), r.ret)
    /\ i' = i + 1
    /\ UNCHANGED <<args, chunk_files, translation_success, result, merge_log,
                   raised, mainVars>>

MergeLabel(files, available, write_outcome) ==
    IF files = <<>> THEN "skipped"
    ELSE IF ~available THEN "unavailable" ELSE write_outcome

\* lines 410-419
MergeMono ==
    /\ pc = "MergingMono"
    /\ \E w \in WriteOutcomes :
        /\ (translated_mono_files = <<>> \/ ~args.merger_available) => w = "ok"
        /\ IF translated_mono_files # <<>>
           THEN LET r == merge_pdfs(fs, translated_mono_files, final_mono_output,
                                    args.merger_available, w)
                IN  /\ fs' = r.fs
                    /\ translation_success' = r.ret
           ELSE /\ fs' = fs
                /\ translation_success' = FALSE
        /\ merge_log' = [merge_log EXCEPT
                           !.mono = MergeLabel(translated_mono_files,
                                               args.merger_available, w)]
    /\ pc' = "MergingDual"
    /\ UNCHANGED <<args, dirs, loopVars, result, raised, mainVars>>

\* the dual merge deciding the result alone
AfterDualMerge_Overwrite(success, dual_success) == dual_success

\* lines 423-425: a successful dual merge sets translation_success
AfterDualMerge(success, dual_success) == success \/ dual_success

\* lines 421-427
MergeDual ==
    /\ pc = "MergingDual"
    /\ \E w \in WriteOutcomes :
        /\ (translated_dual_files = <<>> \/ ~args.merger_available) => w = "ok"
        /\ IF translated_dual_files # <<>>
           THEN LET r == merge_pdfs(fs, translated_dual_files, final_dual_output,
                                    args.merger_available, w)
                IN  /\ fs' = r.fs
                    /\ translation_success' = AfterDualMerge(translation_success, r.ret)
           ELSE /\ fs' = fs
                /\ translation_success' = translation_success
        /\ merge_log' = [merge_log EXCEPT
                           !.dual = MergeLabel(translated_dual_files,
                                               args.merger_available, w)]
    /\ pc' = "Finalizing"
    /\ UNCHANGED <<args, dirs, loopVars, result, raised, mainVars>>

\* the condition of line 430
WantsCopy(f, success, output_file) ==
    /\ success
    /\ output_file # NoPath
    /\ Exists(f, final_mono_output)
    /\ output_file # final_mono_output

\* lines 429-444: the copy to the requested path and the return; a copy that
\* raises is caught by the except clause, which returns False
Finalize ==
    /\ pc = "Finalizing"
    /\ IF WantsCopy(fs, translation_success, args.output_file)
       THEN \E copy_ok \in BOOLEAN :
              IF copy_ok
              THEN /\ fs' = CopyFile(fs, final_mono_output, args.output_file)
                   /\ result' = "True"
                   /\ raised' = raised
              ELSE /\ fs' = fs
                   /\ result' = "False"
                   /\ raised' = "copy"
       ELSE /\ fs' = fs
            /\ result' = IF translation_success THEN "True" ELSE "False"
            /\ raised' = raised
    /\ pc' = "Done"
    /\ UNCHANGED <<args, dirs, loopVars, translation_success, merge_log, mainVars>>

Next ==
    \/ Split
    \/ TranslateChunk
    \/ MergeMono
    \/ MergeDual
    \/ Finalize

Spec == Init /\ [][Next]_vars

(***************************************************************************)
(* split_pdf on its own, over a wider range of inputs.                     *)
(***************************************************************************)
InitSplit ==
    \E total_pages \in 0..MaxSplitPages,
       pages_per_chunk \in (-1)..MaxSplitChunkSize :
        InitState(Args("split", "ok", total_pages, pages_per_chunk, "default",
                       NoPath, FALSE, 1, TRUE, {}),
                  "Splitting")

SplitOnly ==
    /\ pc = "Splitting"
    /\ LET r == split_pdf(fs, dirs, args.input_state, args.total_pages,
                          args.pages_per_chunk)
       IN  /\ fs' = r.fs
           /\ dirs' = r.dirs
           /\ chunk_files' = r.chunk_files
           /\ raised' = IF r.raised THEN "split" ELSE "none"
    /\ pc' = "SplitDone"
    /\ UNCHANGED <<args, i, translated_mono_files, translated_dual_files,
                   translation_success, result, calls, failed, merge_log, mainVars>>

NextSplit == SplitOnly

SpecSplit == InitSplit /\ [][NextSplit]_vars

(***************************************************************************)
(* main                                                                    *)
(***************************************************************************)
MB == 1024 * 1024

\* a page threshold that already counts the threshold itself as large
IsLargePdf_Inclusive(large, page_count, file_size, analysed) ==
    IF analysed
    THEN large \/ page_count >= LargePageThreshold
               \/ file_size > LargeSizeThresholdMB * MB
    ELSE large

\* line 493, and line 496 when the document cannot be analysed
IsLargePdf(large, page_count, file_size, analysed) ==
    IF analysed
    THEN large \/ page_count > LargePageThreshold
               \/ file_size > LargeSizeThresholdMB * MB
    ELSE large

\* line 499
UsesSinglePath(engine, is_large_pdf) == engine = "default" /\ ~is_large_pdf

MainPageCounts == {1, LargePageThreshold, LargePageThreshold + 1}

MainFileSizes == {1, LargeSizeThresholdMB * MB, LargeSizeThresholdMB * MB + 1}

InitMain ==
    \E input_state \in {"ok", "missing", "unreadable"},
       total_pages \in MainPageCounts,
       engine \in Engines,
       output_file \in {DefaultOutput, final_mono_output},
       large \in BOOLEAN,
       file_size \in MainFileSizes,
       merger_available \in BOOLEAN,
       stale \in StaleSets :
        /\ WithinChunks(total_pages, DefaultPagesPerChunk)
        /\ InitState(Args("main", input_state, total_pages, DefaultPagesPerChunk,
                          engine, output_file, large, file_size, merger_available,
                          stale),
                     "main")

\* lines 459-511: the existence check, the analysis of the document, and the
\* choice between the single-document call and process_large_pdf
MainStart ==
    /\ pc = "main"
    /\ IF args.input_state = "missing"
       THEN /\ main_ret' = 1
            /\ route' = "none"
            /\ pc' = "main_return"
            /\ UNCHANGED <<fs, result>>
       ELSE LET is_large_pdf == IsLargePdf(args.large, args.total_pages, args.file_size,
                                           args.input_state = "ok")
            IN  IF UsesSinglePath(args.engine, is_large_pdf)
                THEN \E outcome \in BackendOutcomes, copy_ok \in BOOLEAN :
                        /\ args.input_state # "ok" => outcome = "error"
                        /\ LET r == run_pdfmathtranslate(fs, InputFile, args.output_file,
                                                         outcome, copy_ok)
                           IN  /\ fs' = r.fs
                               /\ result' = IF r.ret THEN "True" ELSE "False"
                        /\ route' = "single"
                        /\ pc' = "Done"
                        /\ UNCHANGED main_ret
                ELSE /\ route' = "chunked"
                     /\ pc' = "Initialized"
                     /\ UNCHANGED <<fs, result, main_ret>>
    /\ UNCHANGED <<args, dirs, loopVars, translation_success, merge_log, raised,
                   exit_status>>

\* lines 513-518
MainFinish ==
    /\ pc = "Done"
    /\ args.caller = "main"
    /\ main_ret' = IF result = "True" THEN 0 ELSE 1
    /\ pc' = "main_return"
    /\ UNCHANGED <<args, fs, dirs, loopVars, translation_success, result, merge_log,
                   raised, route, exit_status>>

\* lines 520-521: main() is called and its value dropped, so the interpreter
\* ends with status 0
ProcessExitStatus(returned) == 0

Exit ==
    /\ pc = "main_return"
    /\ exit_status' = ProcessExitStatus(main_ret)
    /\ pc' = "exited"
    /\ UNCHANGED <<args, fs, dirs, loopVars, translation_success, result, merge_log,
                   raised, route, main_ret>>

NextMain ==
    \/ MainStart
    \/ Split
    \/ TranslateChunk
    \/ MergeMono
    \/ MergeDual
    \/ Finalize
    \/ MainFinish
    \/ Exit

SpecMain == InitMain /\ [][NextMain]_vars

(***************************************************************************)
(* Properties of split_pdf (under SpecSplit).                              *)
(***************************************************************************)
\* the least n with n * d >= t
CeilDiv(t, d) == CHOOSE n \in 0..t : n * d >= t /\ (n - 1) * d < t

PagesOf(k) == fs[chunk_files[k]].blocks

FirstPage(k) == PagesOf(k)[1].n

LastPage(k) == PagesOf(k)[Len(PagesOf(k))].n

PositiveSplitDone ==
    /\ pc = "SplitDone"
    /\ args.total_pages >= 1
    /\ args.pages_per_chunk >= 1

\* C1: for totalPages >= 1 and pagesPerChunk >= 1 split_pdf produces
\* ceil(totalPages / pagesPerChunk) chunks in index order whose page ranges
\* start at page 0, are contiguous, end at totalPages - 1 and cover every page
\* exactly once; every chunk but the last has pagesPerChunk pages and the last
\* has between 1 and pagesPerChunk pages.
C1_SplitCovers ==
    PositiveSplitDone =>
        /\ raised = "none"
        /\ Len(chunk_files) = CeilDiv(args.total_pages, args.pages_per_chunk)
        /\ \A k \in 1..Len(chunk_files) :
            /\ chunk_files[k] = ChunkFileName(k - 1)
            /\ Exists(fs, chunk_files[k])
            /\ Len(PagesOf(k)) >= 1
            /\ Len(PagesOf(k)) <= args.pages_per_chunk
            /\ k < Len(chunk_files) => Len(PagesOf(k)) = args.pages_per_chunk
            /\ k < Len(chunk_files) => LastPage(k) + 1 = FirstPage(k + 1)
        /\ FirstPage(1) = 0
        /\ LastPage(Len(chunk_files)) = args.total_pages - 1
        /\ Concat(fs, chunk_files)
             = [k \in 1..args.total_pages |-> Block("input", "page", k - 1)]

\* a split into several chunks whose last chunk is a remainder
C1_Witness ==
    /\ PositiveSplitDone
    /\ Len(chunk_files) >= 3
    /\ Len(PagesOf(Len(chunk_files))) < args.pages_per_chunk
    /\ Len(PagesOf(Len(chunk_files))) >= 2

(***************************************************************************)
(* Properties of process_large_pdf (under Spec and FairSpec).              *)
(***************************************************************************)
Returned == pc = "Done"

\* the chunk loop ran to its end
LoopCompleted ==
    pc \in {"MergingMono", "MergingDual", "Finalizing", "Done"} /\ raised # "split"

MonoMerged == translated_mono_files # <<>> /\ merge_log.mono = "ok"

DualMerged == translated_dual_files # <<>> /\ merge_log.dual = "ok"

\* C2 as stated: the run reports success iff one of the two accumulated lists
\* is non-empty after all chunks were processed, whatever the merges did.
C2_Original ==
    (Returned /\ raised = "none") =>
        (result = "True"
            <=> (translated_mono_files # <<>> \/ translated_dual_files # <<>>))

\* C2 amended: the run reports success iff one of the two accumulated lists is
\* non-empty and its merge succeeded, and the copy to the requested path, when
\* one is made, did not fail.
C2_SuccessIffMerged ==
    (Returned /\ raised # "split") =>
        (result = "True" <=> ((MonoMerged \/ DualMerged) /\ raised # "copy"))

\* the mono merge fails, the dual merge succeeds, and the run reports success
C2_Witness ==
    /\ Returned
    /\ translated_mono_files # <<>>
    /\ merge_log.mono = "partial"
    /\ DualMerged
    /\ failed # {}
    /\ result = "True"

\* chunk numbers for which the backend left a mono / a dual artifact
WroteMono == {k \in 1..Len(chunk_files) : Exists(fs, AdapterMonoOutput(chunk_files[k]))}

WroteDual == {k \in 1..Len(chunk_files) : Exists(fs, AdapterDualOutput(chunk_files[k]))}

\* the mono page blocks of the chunks of S in increasing chunk order
MonoBlocksOf(S) ==
    LET idx == SelectSeq([k \in 1..Len(chunk_files) |-> k], LAMBDA k : k \in S)
    IN  [a \in 1..Len(idx) |-> Block(Basename(chunk_files[idx[a]]), "mono", 0)]

\* C3 as stated: when the backend writes a mono output (and no dual output)
\* for the chunks of a non-empty set S and nothing for the others, the run ends
\* with a final mono artifact made of the page blocks of S in chunk order, with
\* no final dual artifact, and reports success.
C3_Original ==
    (/\ Returned
     /\ raised = "none"
     /\ args.stale = {}
     /\ args.merger_available
     /\ merge_log.mono \in {"ok", "skipped"}
     /\ WroteMono # {}
     /\ WroteDual = {}
     /\ failed = (1..Len(chunk_files)) \ WroteMono)
    => /\ result = "True"
       /\ Exists(fs, final_mono_output)
       /\ fs[final_mono_output] = File(MonoBlocksOf(WroteMono))
       /\ ~Exists(fs, final_dual_output)

InTempDir(p) == Len(p) > 1 /\ Dirname(p) = TempDir

\* C4 as stated: when process_large_pdf returns, on every exit path, the
\* temporary chunk directory and the chunk artifacts in it have been deleted.
C4_Original ==
    Returned => (TempDir \notin dirs /\ \A p \in DOMAIN fs : ~InTempDir(p))

\* the translator was invoked on chunks 1..i, once each, in that order; the
\* loop is never stuck before the last chunk; merging starts only after the
\* translator was invoked on every chunk
C7_InOrder ==
    /\ pc \in {"TranslatingChunks", "MergingMono", "MergingDual", "Finalizing"}
         => calls = [k \in 1..i |-> k]
    /\ pc = "TranslatingChunks" => (i < Len(chunk_files) /\ ENABLED TranslateChunk)
    /\ LoopCompleted => calls = [k \in 1..Len(chunk_files) |-> k]

\* a loop step invokes the translator on the next chunk and, whether or not
\* that chunk failed, goes on to the next chunk or, after the last, to merging
C7_LoopStep ==
    pc = "TranslatingChunks" =>
        /\ i' = i + 1
        /\ calls' = Append(calls, i + 1)
        /\ pc' = IF i' = Len(chunk_files) THEN "MergingMono" ELSE "TranslatingChunks"

\* C7: chunks are processed one at a time in increasing index order, a failed
\* chunk never keeps the translator from the later chunks, and the merging
\* phase is reached once every chunk has been processed.
C7_LoopContinues == []C7_InOrder /\ [][C7_LoopStep]_vars

\* the first of two chunks failed and the translator still ran on the second
C7_Witness ==
    /\ pc = "MergingMono"
    /\ Len(chunk_files) = 2
    /\ 1 \in failed
    /\ 2 \notin failed
    /\ calls = <<1, 2>>

\* chunk number of a collected artifact
ChunkIndexOf(p) ==
    CHOOSE k \in 1..Len(chunk_files) :
        p \in {expected_mono_output(chunk_files[k]), expected_dual_output(chunk_files[k])}

StrictlyIncreasing(files) ==
    /\ \A a \in 1..Len(files) :
        \E k \in 1..Len(chunk_files) :
            files[a] \in {expected_mono_output(chunk_files[k]),
                          expected_dual_output(chunk_files[k])}
    /\ \A a, b \in 1..Len(files) : a < b => ChunkIndexOf(files[a]) < ChunkIndexOf(files[b])

\* the page blocks of a merged artifact name the artifacts of the list in order
BlocksInListOrder(final, files) ==
    /\ Exists(fs, final)
    /\ Len(fs[final].blocks) = Len(files)
    /\ \A a \in 1..Len(files) : fs[final].blocks[a].src = Basename(files[a])

\* C8: throughout the chunk loop and when each merge is called, the mono list
\* and the dual list are strictly increasing in chunk index, and the page
\* blocks of a merged artifact appear in that order.
C8_ListsInChunkOrder ==
    /\ StrictlyIncreasing(translated_mono_files)
    /\ StrictlyIncreasing(translated_dual_files)
    /\ (pc \in {"MergingDual", "Finalizing"} /\ MonoMerged)
         => BlocksInListOrder(final_mono_output, translated_mono_files)
    /\ (pc = "Finalizing" /\ DualMerged)
         => BlocksInListOrder(final_dual_output, translated_dual_files)

\* both lists hold the artifacts of two chunks and both were merged
C8_Witness ==
    /\ pc = "Finalizing"
    /\ Len(translated_mono_files) = 2
    /\ Len(translated_dual_files) = 2
    /\ MonoMerged
    /\ DualMerged

\* the file at a final location is the one the run started with
Untouched(final) == final \in args.stale /\ fs[final] = StaleFile(final)

CompleteMerge(final, files) ==
    /\ files # <<>>
    /\ fs[final].complete
    /\ fs[final].blocks = Concat(fs, files)

\* C9 as stated: after process_large_pdf returns, the file at each final
\* location is the complete concatenation of the artifacts available for that
\* kind, or that kind's merge left no file there.
C9_Original ==
    Returned =>
        /\ Exists(fs, final_mono_output)
             => (Untouched(final_mono_output)
                 \/ CompleteMerge(final_mono_output, translated_mono_files))
        /\ Exists(fs, final_dual_output)
             => (Untouched(final_dual_output)
                 \/ CompleteMerge(final_dual_output, translated_dual_files))

\* C10 as stated: a run with pagesPerChunk <= 0, or with a missing input
\* file, ends Failed without the Splitter being invoked (no temporary area, no
\* chunk artifact) and without a translator call.
C10_Original ==
    (Returned /\ (args.pages_per_chunk <= 0 \/ args.input_state = "missing")) =>
        /\ result = "False"
        /\ TempDir \notin dirs
        /\ \A p \in DOMAIN fs : ~InTempDir(p)
        /\ calls = <<>>

(***************************************************************************)
(* Properties of main (under SpecMain).                                    *)
(***************************************************************************)
\* C5 as stated: the exit status of the process is 0 if the translation
\* reported overall success and 1 in every other case.
C5_Original ==
    pc = "exited" => exit_status = (IF result = "True" THEN 0 ELSE 1)

SmallDocument ==
    /\ ~args.large
    /\ args.total_pages <= LargePageThreshold
    /\ args.file_size <= LargeSizeThresholdMB * MB

InPipeline ==
    pc \in {"Initialized", "TranslatingChunks", "MergingMono", "MergingDual", "Finalizing"}

PipelineBypassed ==
    /\ route # "chunked"
    /\ ~InPipeline
    /\ TempDir \notin dirs
    /\ calls = <<>>
    /\ (pc # "main" /\ args.input_state # "missing") => route = "single"

\* C6 as stated: without the force-chunking flag, a document of at most 30
\* pages and at most 10 MB takes the single-document path and never enters the
\* chunk pipeline, for every engine selector.
C6_Original == SmallDocument => PipelineBypassed

\* C6 amended: without the force-chunking flag and with the default engine, a
\* document of at most 30 pages and at most 10 MB never enters the chunk
\* pipeline and, when the input file exists, takes the single-document path;
\* the chunk pipeline is entered only when the flag is set, the page count
\* exceeds 30, the size exceeds 10 MB or the engine is not the default one.
C6_SinglePathWhenSmallAndDefault ==
    /\ (SmallDocument /\ args.engine = "default") => PipelineBypassed
    /\ (route = "chunked" \/ InPipeline \/ TempDir \in dirs)
         => (\/ args.large
             \/ args.total_pages > LargePageThreshold
             \/ args.file_size > LargeSizeThresholdMB * MB
             \/ args.engine # "default")

\* a document exactly at both thresholds went through the single-document path
C6_Witness ==
    /\ pc = "exited"
    /\ route = "single"
    /\ ~args.large
    /\ args.engine = "default"
    /\ args.total_pages = LargePageThreshold
    /\ args.file_size = LargeSizeThresholdMB * MB
    /\ result = "True"

(***************************************************************************)
(* merge_pdfs on its own: any list over three artifact paths, any of which *)
(* may be missing when the merge is called.                                *)
(***************************************************************************)
MergePaths == {expected_mono_output(ChunkFileName(k)) : k \in 0..2}

MergeLists == UNION {[1..n -> MergePaths] : n \in 0..MaxMergeLen}

InitMerge ==
    \E pdf_files \in MergeLists, existing \in SUBSET MergePaths,
       merger_available \in BOOLEAN :
        /\ args = Args("merge", "ok", 0, 1, "default", NoPath, FALSE, 1,
                       merger_available, existing)
        /\ pc = "MergeCall"
        /\ fs = [p \in existing |-> StaleFile(p)]
        /\ dirs = {}
        /\ chunk_files = <<>>
        /\ i = 0
        /\ translated_mono_files = pdf_files
        /\ translated_dual_files = <<>>
        /\ translation_success = FALSE
        /\ result = "pending"
        /\ calls = <<>>
        /\ failed = {}
        /\ merge_log = [mono |-> "none", dual |-> "none"]
        /\ raised = "none"
        /\ route = "none"
        /\ main_ret = -1
        /\ exit_status = -1

\* merge_pdfs(translated_mono_files, final_mono_output)
MergeOnly ==
    /\ pc = "MergeCall"
    /\ \E w \in WriteOutcomes :
        /\ (translated_mono_files = <<>> \/ ~args.merger_available) => w = "ok"
        /\ LET r == merge_pdfs(fs, translated_mono_files, final_mono_output,
                               args.merger_available, w)
           IN  /\ fs' = r.fs
               /\ result' = IF r.ret THEN "True" ELSE "False"
        /\ merge_log' = [merge_log EXCEPT
                           !.mono = MergeLabel(translated_mono_files,
                                               args.merger_available, w)]
    /\ pc' = "MergeDone"
    /\ UNCHANGED <<args, dirs, loopVars, translation_success, raised, mainVars>>

NextMerge == MergeOnly

SpecMerge == InitMerge /\ [][NextMerge]_vars

(***************************************************************************)
(* Properties of merge_pdfs (under SpecMerge).                             *)
(***************************************************************************)
\* positions of the list whose path existed when the merge was called
PresentPositions ==
    SelectSeq([k \in 1..Len(translated_mono_files) |-> k],
              LAMBDA k : translated_mono_files[k] \in args.stale)

\* the blocks of the present inputs, in the order of the list
PresentBlocks ==
    [a \in 1..Len(PresentPositions) |->
        Block(Basename(translated_mono_files[PresentPositions[a]]), "stale", 0)]

SomeMissing ==
    \E k \in 1..Len(translated_mono_files) : translated_mono_files[k] \notin args.stale

MergedExactlyPresent ==
    /\ result = "True"
    /\ Exists(fs, final_mono_output)
    /\ fs[final_mono_output] = File(PresentBlocks)
    /\ \A p \in args.stale : Exists(fs, p) /\ fs[p] = StaleFile(p)

NothingWritten == fs = [p \in args.stale |-> StaleFile(p)]

\* C11 as stated: a non-empty list with missing paths is merged from the
\* existing paths in the given order and the merge returns success; an empty
\* list fails without writing any output.
C11_Original ==
    (pc = "MergeDone" /\ merge_log.mono \notin {"fail", "partial"}) =>
        /\ (translated_mono_files # <<>> /\ SomeMissing) => MergedExactlyPresent
        /\ translated_mono_files = <<>> => (result = "False" /\ NothingWritten)

\* C11 amended: when PyPDF2 is available and the output can be written, a
\* non-empty list with missing paths is merged from exactly the existing paths
\* in the given order, without re-sorting, and the merge returns success; an
\* empty list fails without writing any output.
C11_MergeSkipsMissing ==
    pc = "MergeDone" =>
        /\ (translated_mono_files # <<>> /\ merge_log.mono = "ok")
             => MergedExactlyPresent
        /\ translated_mono_files = <<>> => (result = "False" /\ NothingWritten)
        /\ merge_log.mono = "unavailable" => (result = "False" /\ NothingWritten)

\* a list out of chunk order whose middle path is missing was merged from the
\* two others in the order given
C11_Witness ==
    /\ pc = "MergeDone"
    /\ result = "True"
    /\ Len(translated_mono_files) = 3
    /\ translated_mono_files[1] = expected_mono_output(ChunkFileName(2))
    /\ translated_mono_files[2] = expected_mono_output(ChunkFileName(1))
    /\ translated_mono_files[3] = expected_mono_output(ChunkFileName(0))
    /\ translated_mono_files[2] \notin args.stale
    /\ Len(fs[final_mono_output].blocks) = 2
    /\ fs[final_mono_output].blocks[1].src = Basename(translated_mono_files[1])

(***************************************************************************)
(* Properties of the final copy of process_large_pdf (under Spec).         *)
(***************************************************************************)
RequestedElsewhere == args.output_file \notin {NoPath, final_mono_output}

\* C12 as stated: when process_large_pdf succeeds and the requested output
\* path differs from the canonical mono location, the file at the requested
\* path is a copy of the mono artifact merged in this run, the canonical
\* locations are left as the merges wrote them, and the copy is never taken
\* from a mono file this run's mono merge did not produce.
C12_Original ==
    (Returned /\ result = "True" /\ RequestedElsewhere
        /\ Exists(fs, args.output_file)) =>
        /\ MonoMerged
        /\ fs[args.output_file] = File(Concat(fs, translated_mono_files))
        /\ fs[final_mono_output] = fs[args.output_file]
        /\ DualMerged => fs[final_dual_output] = File(Concat(fs, translated_dual_files))

(***************************************************************************)
(* Properties of the artifact names (under Spec).                          *)
(***************************************************************************)
ChunkDone(k) == k <= i /\ pc \in {"TranslatingChunks", "MergingMono"}

ListedIn(p, files) == \E a \in 1..Len(files) : files[a] = p

\* C13 as stated: for every chunk the names under which the translator
\* adapter leaves the mono and dual artifacts are the paths the collection
\* step checks for that chunk, so an artifact written by a successful
\* translation of the chunk is found and appended to the list of its kind.
C13_Original ==
    \A k \in 1..Len(chunk_files) :
        (ChunkDone(k) /\ k \notin failed) =>
            /\ AdapterMonoOutput(chunk_files[k]) = expected_mono_output(chunk_files[k])
            /\ AdapterDualOutput(chunk_files[k]) = expected_dual_output(chunk_files[k])
            /\ Exists(fs, AdapterMonoOutput(chunk_files[k]))
                 => ListedIn(AdapterMonoOutput(chunk_files[k]), translated_mono_files)
            /\ Exists(fs, AdapterDualOutput(chunk_files[k]))
                 => ListedIn(AdapterDualOutput(chunk_files[k]), translated_dual_files)

(***************************************************************************)
(* run_pdfmathtranslate on its own, as main calls it on the whole          *)
(* document, for every kind of requested output_file.                      *)
(***************************************************************************)
AdapterOutputFiles == {NoPath, AdapterMonoOutput(InputFile), DefaultOutput, RequestedOutput}

InitAdapter ==
    \E output_file \in AdapterOutputFiles, stale \in StaleSets :
        InitState(Args("adapter", "ok", 1, 1, "default", output_file, FALSE, 1,
                       TRUE, stale),
                  "AdapterCall")

\* run_pdfmathtranslate(input_file, output_file, source_lang_code, target_lang_code)
RunAdapter ==
    /\ pc = "AdapterCall"
    /\ \E outcome \in BackendOutcomes, copy_ok \in BOOLEAN :
        LET r == run_pdfmathtranslate(fs, InputFile, args.output_file, outcome, copy_ok)
        IN  /\ fs' = r.fs
            /\ result' = IF r.ret THEN "True" ELSE "False"
    /\ pc' = "AdapterDone"
    /\ UNCHANGED <<args, dirs, loopVars, translation_success, merge_log, raised,
                   mainVars>>

NextAdapter == RunAdapter

SpecAdapter == InitAdapter /\ [][NextAdapter]_vars

(***************************************************************************)
(* Properties of run_pdfmathtranslate (under SpecAdapter).                 *)
(***************************************************************************)
\* the backend invocation left a mono / a dual artifact in the output directory
LeftMono ==
    /\ Exists(fs, AdapterMonoOutput(InputFile))
    /\ fs[AdapterMonoOutput(InputFile)] = File(<<Block(Basename(InputFile), "mono", 0)>>)

LeftDual ==
    /\ Exists(fs, AdapterDualOutput(InputFile))
    /\ fs[AdapterDualOutput(InputFile)] = File(<<Block(Basename(InputFile), "dual", 0)>>)

NoCopyRequested == args.output_file \in {NoPath, AdapterMonoOutput(InputFile)}

\* C14 as stated: run_pdfmathtranslate returns True iff the backend left a
\* mono or a dual artifact, for every requested output_file; a run that left
\* only the dual artifact with a distinct output_file still returns True; no
\* error escapes as an exception.  (Runs in which a copy of an existing mono
\* file could not be written are left out.)
C14_Original ==
    pc = "AdapterDone" =>
        /\ result \in {"True", "False"}
        /\ result = "True" => (LeftMono \/ LeftDual)
        /\ ((LeftMono \/ LeftDual) /\ NoCopyRequested) => result = "True"
        /\ (LeftMono /\ Exists(fs, args.output_file)) => result = "True"
        /\ (LeftDual /\ ~Exists(fs, AdapterMonoOutput(InputFile))) => result = "True"

====
